---- MODULE Spec2Model ----
(***************************************************************************)
(* Model of the list-mutation layer of yuna                                *)
(* (src/src/graphql/mutations/list-entry.ts).                              *)
(*                                                                         *)
(* Every mutation goes through $apollo.mutate.  The Apollo client is the   *)
(* environment of this code; the model follows its contract:               *)
(*   - a mutation called with an optimisticResponse gets an optimistic     *)
(*     layer: the optimistic response is written to the normalized store   *)
(*     of the layer and the update callback runs against the layer, all    *)
(*     synchronously inside mutate(), before the request is sent;          *)
(*   - while the request is in flight, readers of the cache see the base   *)
(*     store with the layers of the in-flight mutations replayed on top,   *)
(*     in dispatch order;                                                  *)
(*   - when the server answers, the result is written to the base store,   *)
(*     the update callback runs against the base store, and the layer of   *)
(*     the mutation is dropped;                                            *)
(*   - when the request fails, the layer is dropped and the promise of     *)
(*     mutate() rejects (errorPolicy 'all' resolves with the errors when   *)
(*     the failure is a GraphQL error).                                    *)
(* getOptimisticResponse reads cache.data.data, which is the base store.   *)
(***************************************************************************)
EXTENDS Integers, Sequences, FiniteSets, TLC

(* ------------------------------ bounds --------------------------------- *)
MaxCalls == 2       \* calls of the exported functions in one behaviour
MaxProgress == 1    \* episode numbers are -1..MaxProgress
MaxScore == 1       \* scores are 0..MaxScore

MediaIds == {1, 2}
\* MediaListStatus, three of its values
Statuses == {"PLANNING", "CURRENT", "REPEATING"}
Providers == {"Crunchyroll", "Hidive"}
Scores == 0..MaxScore
Progresses == 0..MaxProgress
EpisodeNumbers == (-1)..MaxProgress

(* ------------------------------ values --------------------------------- *)
\* undefined / null
Null == [null |-> TRUE]
\* a status that was not given (options.status === undefined)
NoStatus == "UNDEFINED"
\* a score that was not given
NoScore == "UNDEFINED"

\* id the remote service gave the entry of a media
ServerId(mediaId) == 100 + mediaId

\* entries of a freshly loaded cache: what the remote service holds, here
\* an entry of any status, not scored, with MaxProgress episodes watched
LoadedEntries(mediaId) ==
  [id : {ServerId(mediaId)}, mediaId : {mediaId}, score : {0},
   progress : {MaxProgress}, rewatched : {0}, status : Statuses]

\* anime page query (ANIME_PAGE_QUERY) of a media in the cache
AnimeStates == {"NotCached", "NoListEntry", "HasListEntry"}

VARIABLES
  cache,      \* base store of the Apollo cache
  inflight,   \* mutations sent and not yet answered, in dispatch order
  sent,       \* number of mutations dispatched to the remote service
  captured,   \* number of errors reported with captureException
  raced,      \* history: per media, the kinds of the mutations that were in
              \* flight on it together with another mutation on it
  last,       \* the last step: the call or the answer, with its inputs and
              \* the cache as readers saw it before the step
  store,      \* the settings store of the provider clients (auth state,
              \* settings)
  session,    \* the module-level session state of the provider clients
  proc,       \* the running call of a provider client: function, position,
              \* locals, outcome
  trace       \* history: the requests and effects of the running call

vars == <<cache, inflight, sent, captured, raced, last, store, session, proc, trace>>

\* the variables of the provider clients
providerVars == <<store, session, proc, trace>>

\* the variables of the list-mutation layer
listVars == <<cache, inflight, sent, captured, raced, last>>

(* ------------------------ cache helpers -------------------------------- *)
RECURSIVE Without(_, _)
Without(list, mediaId) ==
  IF list = <<>> THEN <<>>
  ELSE IF Head(list) = mediaId THEN Without(Tail(list), mediaId)
       ELSE <<Head(list)>> \o Without(Tail(list), mediaId)

\* addToCacheList(cache, entry): insert the entry into the bucket of its status
addToCacheList(c, entry) ==
  [c EXCEPT !.lists[entry.status] = Append(@, entry.mediaId)]

\* removeFromCacheList(cache, mediaId): remove the entry from whichever
\* bucket holds it, no-op if absent
removeFromCacheList(c, mediaId) ==
  [c EXCEPT !.lists = [s \in Statuses |-> Without(c.lists[s], mediaId)]]

\* writeEpisodeProgressToCache(cache, {provider, animeId, episodeNumber}):
\* set the current-episode pointer of the anime/provider pair
writeEpisodeProgressToCache(c, episode) ==
  [c EXCEPT !.episodes[<<episode.animeId, episode.provider>>] =
              <<episode.episodeNumber>>]

(* --------------------- getOptimisticResponse --------------------------- *)
\* entry?.field ?? default
OrDefault(entry, field, default) ==
  IF entry = Null THEN default ELSE entry[field]

\* getOptimisticResponse with the spread of newValues first, so that the
\* cached values and the defaults win over the requested ones
getOptimisticResponseSpreadFirst(c, anilistId, newValues) ==
  LET entry == c.data[anilistId]
  IN [id |-> OrDefault(entry, "id", -1),
      mediaId |-> anilistId,
      score |-> OrDefault(entry, "score", -1),
      progress |-> OrDefault(entry, "progress", -1),
      rewatched |-> OrDefault(entry, "rewatched", -1),
      status |-> OrDefault(entry, "status", "PLANNING")] @@ newValues

getOptimisticResponse(c, anilistId, newValues) ==
  LET entry == c.data[anilistId]
  IN newValues @@
     [id |-> OrDefault(entry, "id", -1),
      mediaId |-> anilistId,
      score |-> OrDefault(entry, "score", -1),
      progress |-> OrDefault(entry, "progress", -1),
      rewatched |-> OrDefault(entry, "rewatched", -1),
      status |-> OrDefault(entry, "status", "PLANNING")]

(* ------------------- what Apollo does with a result -------------------- *)
\* result of DeleteFromList: not a ListEntry, nothing to normalize
Deleted == [deleted |-> TRUE]

\* the result of a mutation is normalized into the store: a ListEntry is
\* stored under ListEntry:<mediaId>
WriteResult(c, data) ==
  IF data = Null \/ data = Deleted THEN c
  ELSE [c EXCEPT !.data[data.mediaId] = data]

(* -------------------------- update callbacks --------------------------- *)
addToListUpdate(c, anilistId, data) ==
  IF data = Null THEN c
  ELSE LET c1 == addToCacheList(c, data)
       IN \* readQuery throws when the anime page is not in the cache; the
          \* callback ends there, after addToCacheList
          IF c1.anime[anilistId] = "NotCached" THEN c1
          ELSE [c1 EXCEPT !.anime[anilistId] = "HasListEntry"]

deleteFromListUpdate(c, anilistId) ==
  LET c1 == removeFromCacheList(c, anilistId)
  IN IF c1.anime[anilistId] # "HasListEntry" THEN c1
     ELSE [c1 EXCEPT !.anime[anilistId] = "NoListEntry"]

editListEntryUpdate(c, anilistId, optionsStatus, oldStatus, data) ==
  IF data = Null \/ optionsStatus = oldStatus THEN c
  ELSE addToCacheList(removeFromCacheList(c, anilistId), data)

\* the update callback of updateStatus without removeFromCacheList
updateStatusUpdateNoRemove(c, anilistId, data) ==
  addToCacheList(c, data)

updateStatusUpdate(c, anilistId, data) ==
  addToCacheList(removeFromCacheList(c, anilistId), data)

\* the update callback of startRewatching without the synthetic episode
startRewatchingUpdateNoEpisode(c, data) ==
  IF data = Null THEN c ELSE addToCacheList(c, data)

startRewatchingUpdate(c, data) ==
  IF data = Null THEN c
  ELSE LET fakeEpisode == [provider |-> "Crunchyroll",
                           animeId |-> data.mediaId,
                           episodeNumber |-> 0]
       IN writeEpisodeProgressToCache(addToCacheList(c, data), fakeEpisode)

setProgressUpdate(c, options, oldStatus, data) ==
  IF data = Null THEN c
  ELSE LET c1 == IF oldStatus # data.status
                 THEN addToCacheList(
                        removeFromCacheList(c, options.animeId), data)
                 ELSE c
       IN writeEpisodeProgressToCache(c1, options)

\* the update option of the mutation m, run against the store c
Update(m, c, data) ==
  CASE m.kind = "addToList" -> addToListUpdate(c, m.anilistId, data)
    [] m.kind = "deleteFromList" -> deleteFromListUpdate(c, m.anilistId)
    [] m.kind = "editListEntry" ->
         editListEntryUpdate(c, m.anilistId, m.status, m.oldStatus, data)
    [] m.kind = "updateStatus" -> updateStatusUpdate(c, m.anilistId, data)
    [] m.kind = "startRewatching" -> startRewatchingUpdate(c, data)
    [] m.kind = "updateScore" -> c
    [] m.kind = "setProgress" ->
         setProgressUpdate(c, m.episode, m.oldStatus, data)

\* a result arrives for m: normalize it, then run the update callback
ApplyResult(c, m, data) == Update(m, WriteResult(c, data), data)

\* the optimistic layer of m on top of the store c
ApplyLayer(c, m) ==
  IF m.optimistic = Null THEN c ELSE ApplyResult(c, m, m.optimistic)

RECURSIVE Replay(_, _)
Replay(c, layers) ==
  IF layers = <<>> THEN c
  ELSE Replay(ApplyLayer(c, Head(layers)), Tail(layers))

\* the cache as readers see it: the base store and the optimistic layers
View == Replay(cache, inflight)

\* the base store and the readers' cache, as recorded before each step
Seen == [store |-> cache, view |-> View]

(* ------------------------------ Init ----------------------------------- *)
RECURSIVE Ascending(_)
\* the elements of a set of media ids as a list, smallest first
Ascending(S) ==
  IF S = {} THEN <<>>
  ELSE LET min == CHOOSE x \in S : \A y \in S : x <= y
       IN <<min>> \o Ascending(S \ {min})

\* a cache filled by the list and anime queries: every cached entry came
\* from the remote service and sits in the bucket of its status
Loaded(data, animeCached) ==
  [data |-> data,
   lists |-> [s \in Statuses |->
                Ascending({m \in MediaIds :
                             data[m] # Null /\ data[m].status = s})],
   anime |-> [m \in MediaIds |->
                IF m \notin animeCached THEN "NotCached"
                ELSE IF data[m] = Null THEN "NoListEntry"
                ELSE "HasListEntry"],
   episodes |-> [p \in MediaIds \X Providers |-> <<>>]]

\* no provider client is in use
NoProvider ==
  /\ store = Null
  /\ session = Null
  /\ proc = Null
  /\ trace = <<>>

NoCall ==
  [ev |-> "none", mutation |-> Null, data |-> Null, outcome |-> "none",
   before |-> Null]

Init ==
  /\ \E data \in [MediaIds ->
                     {Null} \cup UNION {LoadedEntries(m) : m \in MediaIds}],
        animeCached \in {{}, MediaIds} :
       /\ \A m \in MediaIds : data[m] # Null => data[m].mediaId = m
       /\ cache = Loaded(data, animeCached)
  /\ inflight = <<>>
  /\ sent = 0
  /\ captured = 0
  /\ raced = [m \in MediaIds |-> {}]
  /\ last = NoCall
  /\ NoProvider

(* ----------------------------- mutate ---------------------------------- *)
\* a mutation handed to $apollo.mutate: its variables (anilistId, status,
\* score, episode), the oldStatus its update callback closes over, its
\* errorPolicy and its optimisticResponse
Mutation(kind, anilistId, status, score, oldStatus, episode, errorPolicy, optimistic) ==
  [kind |-> kind, anilistId |-> anilistId, status |-> status,
   score |-> score, oldStatus |-> oldStatus, episode |-> episode,
   errorPolicy |-> errorPolicy, optimistic |-> optimistic]

\* the kinds of the mutations in flight on the media
KindsInFlight(mediaId) ==
  {inflight[i].kind : i \in {j \in 1..Len(inflight) :
                                inflight[j].anilistId = mediaId}}

\* $apollo.mutate(...): the optimistic layer is applied (the mutation is
\* appended to inflight, View replays it) and the request is sent
mutate(kind, anilistId, status, score, oldStatus, episode, errorPolicy, optimistic) ==
  /\ sent + captured < MaxCalls
  /\ inflight' = Append(inflight,
                        Mutation(kind, anilistId, status, score, oldStatus,
                                 episode, errorPolicy, optimistic))
  /\ sent' = sent + 1
  /\ raced' = IF KindsInFlight(anilistId) = {} THEN raced
              ELSE [raced EXCEPT ![anilistId] =
                      @ \cup KindsInFlight(anilistId) \cup {kind}]
  /\ last' = [ev |-> "call",
              mutation |-> Mutation(kind, anilistId, status, score,
                                    oldStatus, episode, errorPolicy,
                                    optimistic),
              data |-> Null, outcome |-> "pending", before |-> Seen]
  /\ UNCHANGED <<cache, captured, store, session, proc, trace>>

addToList(anilistId) ==
  mutate("addToList", anilistId, NoStatus, NoScore, NoStatus, Null, "none", Null)

deleteFromList(anilistId) ==
  mutate("deleteFromList", anilistId, NoStatus, NoScore, NoStatus, Null,
         "none", Null)

editListEntry(anilistId, optionsStatus) ==
  mutate("editListEntry", anilistId, optionsStatus, NoScore,
         getOptimisticResponse(cache, anilistId, <<>>).status,
         Null, "all", Null)

updateStatus(anilistId, status) ==
  mutate("updateStatus", anilistId, status, NoScore, NoStatus, Null, "none",
         getOptimisticResponse(cache, anilistId, [status |-> status]))

startRewatching(anilistId) ==
  mutate("startRewatching", anilistId, NoStatus, NoScore, NoStatus, Null,
         "none",
         getOptimisticResponse(cache, anilistId,
                               [status |-> "REPEATING", progress |-> 0]))

\* updateScore without an optimisticResponse
updateScoreNotOptimistic(anilistId, score) ==
  mutate("updateScore", anilistId, NoStatus, score, NoStatus, Null, "none",
         Null)

updateScore(anilistId, score) ==
  mutate("updateScore", anilistId, NoStatus, score, NoStatus, Null, "none",
         getOptimisticResponse(cache, anilistId, [score |-> score]))

\* setProgress without the guard on negative progress
setProgressUnguarded(options) ==
  mutate("setProgress", options.animeId, NoStatus, NoScore,
         getOptimisticResponse(cache, options.animeId, <<>>).status,
         options, "none",
         getOptimisticResponse(cache, options.animeId,
                               [progress |-> options.episodeNumber]))

setProgress(options) ==
  IF options.episodeNumber < 0
  THEN /\ sent + captured < MaxCalls
       /\ captured' = captured + 1
       /\ last' = [ev |-> "call",
                   mutation |-> Mutation("setProgress", options.animeId,
                                         NoStatus, NoScore, NoStatus,
                                         options, "none", Null),
                   data |-> Null, outcome |-> "captured", before |-> Seen]
       /\ UNCHANGED <<cache, inflight, sent, raced, store, session, proc, trace>>
  ELSE mutate("setProgress", options.animeId, NoStatus, NoScore,
              getOptimisticResponse(cache, options.animeId, <<>>).status,
              options, "none",
              getOptimisticResponse(cache, options.animeId,
                                    [progress |-> options.episodeNumber]))

(* --------------------------- the answers ------------------------------- *)
\* the entry the remote service returns: the fields the mutation sets,
\* the status it decides, and for the rest what the base store knows of
\* the entry (0 where it knows nothing)
ServerEntry(c, mediaId, status, changes) ==
  LET entry == c.data[mediaId]
      Known(field) == IF entry = Null \/ entry[field] < 0 THEN 0
                      ELSE entry[field]
  IN changes @@
     [id |-> ServerId(mediaId), mediaId |-> mediaId,
      score |-> Known("score"), progress |-> Known("progress"),
      rewatched |-> Known("rewatched"), status |-> status]

\* what the remote service can answer to the mutation m: the status is the
\* requested one when the mutation names one, any status otherwise
Results(c, m) ==
  CASE m.kind = "addToList" ->
         {ServerEntry(c, m.anilistId, s, <<>>) : s \in Statuses}
    [] m.kind = "deleteFromList" -> {Deleted}
    [] m.kind = "editListEntry" ->
         {ServerEntry(c, m.anilistId, s, <<>>) :
            s \in IF m.status = NoStatus THEN Statuses ELSE {m.status}}
    [] m.kind = "updateStatus" ->
         {ServerEntry(c, m.anilistId, m.status, <<>>)}
    [] m.kind = "startRewatching" ->
         {ServerEntry(c, m.anilistId, "REPEATING", [progress |-> 0])}
    [] m.kind = "updateScore" ->
         {ServerEntry(c, m.anilistId, s, [score |-> m.score]) :
            s \in Statuses}
    [] m.kind = "setProgress" ->
         {ServerEntry(c, m.anilistId, s,
                      [progress |-> m.episode.episodeNumber]) :
            s \in Statuses}

RemoveAt(seq, i) == SubSeq(seq, 1, i - 1) \o SubSeq(seq, i + 1, Len(seq))

\* the remote service answers the i-th mutation in flight with data
Succeed(i, data) ==
  /\ i \in 1..Len(inflight)
  /\ data \in Results(cache, inflight[i])
  /\ cache' = ApplyResult(cache, inflight[i], data)
  /\ inflight' = RemoveAt(inflight, i)
  /\ last' = [ev |-> "answer", mutation |-> inflight[i], data |-> data,
              outcome |-> "resolved", before |-> Seen]
  /\ UNCHANGED <<sent, captured, raced, store, session, proc, trace>>

\* a failure that leaves the optimistic projection in the store
FailKeepsProjection(i, error) ==
  /\ i \in 1..Len(inflight)
  /\ cache' = ApplyLayer(cache, inflight[i])
  /\ inflight' = RemoveAt(inflight, i)
  /\ last' = [ev |-> "answer", mutation |-> inflight[i], data |-> Null,
              outcome |-> "rejected", before |-> Seen]
  /\ UNCHANGED <<sent, captured, raced, store, session, proc, trace>>

\* the i-th mutation in flight fails: a network error, or a GraphQL error
\* in the answer
Fail(i, error) ==
  /\ i \in 1..Len(inflight)
  /\ inflight' = RemoveAt(inflight, i)
  /\ last' = [ev |-> "answer", mutation |-> inflight[i], data |-> Null,
              outcome |-> IF error = "graphql"
                             /\ inflight[i].errorPolicy = "all"
                          THEN "resolvedWithErrors" ELSE "rejected",
              before |-> Seen]
  /\ UNCHANGED <<cache, sent, captured, raced, store, session, proc, trace>>

Next ==
  \/ \E anilistId \in MediaIds : addToList(anilistId)
  \/ \E anilistId \in MediaIds : deleteFromList(anilistId)
  \/ \E anilistId \in MediaIds, s \in Statuses \cup {NoStatus} :
       editListEntry(anilistId, s)
  \/ \E anilistId \in MediaIds, s \in Statuses : updateStatus(anilistId, s)
  \/ \E anilistId \in MediaIds : startRewatching(anilistId)
  \/ \E anilistId \in MediaIds, score \in Scores :
       updateScore(anilistId, score)
  \/ \E options \in [provider : Providers, animeId : MediaIds,
                     episodeNumber : EpisodeNumbers] : setProgress(options)
  \/ \E i \in 1..Len(inflight) : \E data \in Results(cache, inflight[i]) :
       Succeed(i, data)
  \/ \E i \in 1..Len(inflight), error \in {"network", "graphql"} :
       Fail(i, error)

Spec == Init /\ [][Next]_vars

(* ======================= properties ==================================== *)
\* number of times the media is listed in a bucket
Count(list, mediaId) ==
  Cardinality({i \in 1..Len(list) : list[i] = mediaId})

RECURSIVE Sum(_, _)
Sum(f, S) ==
  IF S = {} THEN 0
  ELSE LET x == CHOOSE y \in S : TRUE IN f[x] + Sum(f, S \ {x})

\* number of times the media is listed over all buckets
Occurrences(c, mediaId) ==
  Sum([s \in Statuses |-> Count(c.lists[s], mediaId)], Statuses)

\* the media is listed once, in the bucket of status, and nowhere else
OnlyInBucket(c, mediaId, status) ==
  /\ Count(c.lists[status], mediaId) = 1
  /\ Occurrences(c, mediaId) = 1

\* the last step was a call of the function kind
Called(kind) ==
  last.ev = "call" /\ last.mutation.kind = kind

\* the last step was the successful answer to a mutation of the kind
Answered(kind) ==
  last.ev = "answer" /\ last.outcome = "resolved"
  /\ last.mutation.kind = kind

\* no mutation on the media is in flight
NoneInFlightOn(mediaId) ==
  \A i \in 1..Len(inflight) : inflight[i].anilistId # mediaId

(* ------------------------------- C1 ------------------------------------ *)
NegativeCall ==
  Called("setProgress") /\ last.mutation.episode.episodeNumber < 0

\* C1: a call of setProgress with a negative episodeNumber dispatches no
\* mutation, writes nothing to the cache (base store or optimistic layer)
\* and reports one error with captureException, whatever the cache holds.
C1_NegativeProgressIsRejected ==
  [][NegativeCall' =>
       /\ sent' = sent
       /\ inflight' = inflight
       /\ cache' = cache
       /\ View' = View
       /\ captured' = captured + 1]_vars

\* a negative setProgress was rejected while another mutation was in flight
C1_Witness ==
  /\ NegativeCall
  /\ last.outcome = "captured"
  /\ captured = 1
  /\ Len(inflight) = 1

(* ------------------------------- C2 ------------------------------------ *)
\* C2: after updateStatus(anilistId, B) the entry is listed exactly once,
\* in bucket B: in the cache the readers see right after the optimistic
\* pass, and after the answer in the base store (and in what the readers
\* see, when no other mutation on that media is in flight).
C2_UpdateStatusOneBucket ==
  /\ Called("updateStatus") =>
       OnlyInBucket(View, last.mutation.anilistId, last.mutation.status)
  /\ Answered("updateStatus") =>
       /\ OnlyInBucket(cache, last.mutation.anilistId, last.mutation.status)
       /\ NoneInFlightOn(last.mutation.anilistId) =>
            OnlyInBucket(View, last.mutation.anilistId,
                         last.mutation.status)

\* the entry was cached with another status A, and listed under A, when
\* the answer arrived
C2_Witness ==
  /\ Answered("updateStatus")
  /\ \E A \in Statuses \ {last.mutation.status} :
       LET old == last.before.store IN
       /\ old.data[last.mutation.anilistId] # Null
       /\ old.data[last.mutation.anilistId].status = A
       /\ OnlyInBucket(old, last.mutation.anilistId, A)
       /\ Count(cache.lists[A], last.mutation.anilistId) = 0

(* ------------------------------- C3 ------------------------------------ *)
\* C3: the cache lists at most one ListEntry per mediaId over all status
\* buckets, in the base store and in what the readers see.
C3_AtMostOneEntryPerMedia ==
  \A mediaId \in MediaIds :
    /\ Occurrences(cache, mediaId) <= 1
    /\ Occurrences(View, mediaId) <= 1

(* ------------------------------- C4 ------------------------------------ *)
RewatchStarted(c, mediaId) ==
  /\ c.data[mediaId].progress = 0
  /\ c.episodes[<<mediaId, "Crunchyroll">>] = <<0>>

\* C4: when startRewatching succeeds the cached entry has progress 0 and
\* the episode-progress cache holds episode 0 for the anime, whatever the
\* progress was before; the optimistic pass shows the same to the readers.
C4_StartRewatchingResets ==
  /\ Called("startRewatching") =>
       RewatchStarted(View, last.mutation.anilistId)
  /\ Answered("startRewatching") =>
       /\ RewatchStarted(cache, last.mutation.anilistId)
       /\ NoneInFlightOn(last.mutation.anilistId) =>
            RewatchStarted(View, last.mutation.anilistId)

\* startRewatching succeeded on an entry whose progress was MaxProgress
C4_Witness ==
  /\ Answered("startRewatching")
  /\ MaxProgress > 0
  /\ last.before.store.data[last.mutation.anilistId] # Null
  /\ last.before.store.data[last.mutation.anilistId].progress = MaxProgress
  /\ last.before.store.episodes[<<last.mutation.anilistId, "Crunchyroll">>]
       = <<>>
  /\ RewatchStarted(cache, last.mutation.anilistId)

(* ------------------------------- C5 ------------------------------------ *)
\* the last step was a call that dispatched a mutation
Dispatched ==
  last.ev = "call" /\ last.outcome = "pending"

\* the readers' cache holds the optimistic projection of the last call
ProjectionVisible ==
  /\ last.mutation.optimistic # Null
  /\ View.data[last.mutation.anilistId] = last.mutation.optimistic

\* C5 as stated: each of the seven mutations writes a projected ListEntry
\* into the cache before the request is answered.
C5_EveryMutationIsOptimistic ==
  Dispatched => ProjectionVisible

OptimisticKinds ==
  {"updateStatus", "startRewatching", "updateScore", "setProgress"}

\* the entry the readers' cache held for the media before the last step,
\* with the defaults of an entry that is not cached
EntryBefore(field, default) ==
  IF last.before.store.data[last.mutation.anilistId] = Null THEN default
  ELSE last.before.store.data[last.mutation.anilistId][field]

\* C5 amended: updateStatus, startRewatching, updateScore and setProgress
\* show their projection to the readers of the cache as soon as they are
\* called, with the requested value in it, and leave the base store as it
\* was; addToList, deleteFromList and editListEntry pass no
\* optimisticResponse and change nothing until the answer.
C5_OptimisticKindsProject ==
  Dispatched =>
    /\ cache = last.before.store
    /\ last.mutation.kind \in OptimisticKinds =>
         /\ ProjectionVisible
         /\ last.mutation.kind = "updateStatus" =>
              View.data[last.mutation.anilistId].status
                = last.mutation.status
         /\ last.mutation.kind = "startRewatching" =>
              /\ View.data[last.mutation.anilistId].status = "REPEATING"
              /\ View.data[last.mutation.anilistId].progress = 0
         /\ last.mutation.kind = "updateScore" =>
              /\ View.data[last.mutation.anilistId].score
                   = last.mutation.score
              /\ View.data[last.mutation.anilistId].status
                   = EntryBefore("status", "PLANNING")
         /\ last.mutation.kind = "setProgress" =>
              View.data[last.mutation.anilistId].progress
                = last.mutation.episode.episodeNumber
    /\ last.mutation.kind \notin OptimisticKinds =>
         /\ last.mutation.optimistic = Null
         /\ View = last.before.view

\* updateScore changed the score the readers see of a cached entry while
\* its request is in flight
C5_Witness ==
  /\ Dispatched
  /\ last.mutation.kind = "updateScore"
  /\ last.before.view.data[last.mutation.anilistId] # Null
  /\ last.before.view.data[last.mutation.anilistId].score
       # last.mutation.score
  /\ View.data[last.mutation.anilistId].score = last.mutation.score
  /\ cache.data[last.mutation.anilistId].score # last.mutation.score

(* ------------------------------- C6 ------------------------------------ *)
\* the last step was the failure of a mutation
Failed ==
  last.ev = "answer" /\ last.outcome # "resolved"

Consistent(c, mediaId) ==
  /\ c.data[mediaId] # Null
  /\ OnlyInBucket(c, mediaId, c.data[mediaId].status)

\* the last step was the successful answer to a mutation on a media on
\* which an updateStatus and a setProgress were in flight at once, no
\* mutation on that media is in flight any more, and the cache was
\* consistent for that media when the answer arrived
LastOfRace ==
  /\ last.ev = "answer" /\ last.outcome = "resolved"
  /\ raced[last.mutation.anilistId] = {"updateStatus", "setProgress"}
  /\ NoneInFlightOn(last.mutation.anilistId)
  /\ Consistent(last.before.store, last.mutation.anilistId)

\* C7: when two mutations on a media were in flight at once (here an
\* updateStatus and a setProgress), the cached entry is in the end the one
\* of the answer that arrived last: its fields, and the bucket of its
\* status.
C7_LastReconcileWins ==
  LastOfRace =>
    /\ cache.data[last.mutation.anilistId] = last.data
    /\ OnlyInBucket(cache, last.mutation.anilistId, last.data.status)

(* ------------------------------- C9 ------------------------------------ *)
\* the last step was the successful answer to an editListEntry or a
\* setProgress, the entry was cached with another status than the returned
\* one when the answer arrived, and was listed under that status only
StatusChanged ==
  /\ Answered("editListEntry") \/ Answered("setProgress")
  /\ Consistent(last.before.store, last.mutation.anilistId)
  /\ last.before.store.data[last.mutation.anilistId].status
       # last.data.status

\* C9: after a successful editListEntry or setProgress that changed the
\* status of the entry, the entry is listed in the bucket of the returned
\* status and in no other.
C9_StatusChangeMovesEntry ==
  StatusChanged =>
    OnlyInBucket(cache, last.mutation.anilistId, last.data.status)

(* ------------------------------- C10 ----------------------------------- *)
\* the fields of a ListEntry that newValues can give
EntryFields == {"id", "score", "progress", "rewatched", "status"}

\* newValues: for each field, nothing or a value
NewValueChoices ==
  [id : {<<>>, <<7>>},
   score : {<<>>} \cup {<<x>> : x \in Scores},
   progress : {<<>>} \cup {<<x>> : x \in Progresses},
   rewatched : {<<>>, <<1>>},
   status : {<<>>} \cup {<<x>> : x \in Statuses}]

\* the object with the fields that were given
Partial(choice) ==
  [f \in {g \in EntryFields : choice[g] # <<>>} |-> choice[f][1]]

\* entries the cache can hold
CachedEntries(mediaId) ==
  [id : {ServerId(mediaId)}, mediaId : {mediaId}, score : Scores,
   progress : Progresses, rewatched : {0}, status : Statuses]

InitProjection ==
  /\ \E data \in [MediaIds ->
                     {Null} \cup UNION {CachedEntries(m) : m \in MediaIds}] :
       /\ \A m \in MediaIds : data[m] # Null => data[m].mediaId = m
       /\ cache = Loaded(data, {})
  /\ inflight = <<>>
  /\ sent = 0
  /\ captured = 0
  /\ raced = [m \in MediaIds |-> {}]
  /\ last = NoCall
  /\ NoProvider

\* getOptimisticResponse is applied to the cache, once
Project(anilistId, choice) ==
  /\ last.ev = "none"
  /\ last' = [ev |-> "project", anilistId |-> anilistId,
              newValues |-> Partial(choice),
              data |-> getOptimisticResponse(cache, anilistId,
                                             Partial(choice))]
  /\ UNCHANGED <<cache, inflight, sent, captured, raced, store, session, proc, trace>>

NextProjection ==
  \E anilistId \in MediaIds, choice \in NewValueChoices :
    Project(anilistId, choice)

SpecProjection == InitProjection /\ [][NextProjection]_vars

\* the sentinel of a field of an entry that is not cached
Sentinel(field) == IF field = "status" THEN "PLANNING" ELSE -1

\* C10: the projection has the requested mediaId; each other field is the
\* requested value when newValues gives one, else the cached value, else
\* the sentinel (-1, status Planning); it has no other field.
C10_ProjectionOverlaysNewValues ==
  last.ev = "project" =>
    /\ DOMAIN last.data = EntryFields \cup {"mediaId"}
    /\ last.data.mediaId = last.anilistId
    /\ \A f \in EntryFields :
         last.data[f] =
           IF f \in DOMAIN last.newValues THEN last.newValues[f]
           ELSE IF cache.data[last.anilistId] = Null THEN Sentinel(f)
           ELSE cache.data[last.anilistId][f]

\* a projection of an entry that is not cached, with only the score given
C10_Witness ==
  /\ last.ev = "project"
  /\ cache.data[last.anilistId] = Null
  /\ DOMAIN last.newValues = {"score"}
  /\ last.data.score = last.newValues.score
  /\ last.data.progress = -1
  /\ last.data.status = "PLANNING"


(* ======================= provider clients ============================== *)
(* Model of the provider session clients (src/unnamed/part_001).           *)
(*                                                                         *)
(* superagent is the environment of the clients; the model follows its     *)
(* contract: the promise of a request resolves with the response when the  *)
(* response arrived with a 2xx status, and rejects on a transport error    *)
(* and on every other status, unless the request was built with .ok(T),    *)
(* which makes every response that arrived resolve.  A response that       *)
(* resolved without .ok(T) therefore always has ok = TRUE.                 *)
(* A call of an async function that is not awaited runs up to its first    *)
(* await (the request is sent) and its promise is dropped: a later         *)
(* rejection reaches no catch block of the caller.                         *)
(* One call of a provider function runs at a time; each step of the model  *)
(* is the code between two awaited requests.                               *)

MaxProviderCalls == 2   \* calls of provider functions in one behaviour

DeviceIds == {"d1", "d2"}
VisitIds == {"v1", "v2"}
IPAddresses == {"10.0.0.1"}

\* the list-mutation layer is not in use
NoList ==
  /\ cache = Loaded([m \in MediaIds |-> Null], {})
  /\ inflight = <<>>
  /\ sent = 0
  /\ captured = 0
  /\ raced = [m \in MediaIds |-> {}]
  /\ last = NoCall

\* what superagent got for a request: no response at all (transport error),
\* or a response with a status (ok: 2xx) and a JSON body
TransportError == [arrived |-> FALSE, ok |-> FALSE, Code |-> -1, Data |-> Null]

HttpError == [arrived |-> TRUE, ok |-> FALSE, Code |-> -1, Data |-> Null]

\* await superagent...: TRUE when the promise resolves with the response,
\* FALSE when it rejects; okAll is TRUE for a request built with .ok(T)
superagentResolves(response, okAll) ==
  response.arrived /\ (response.ok \/ okAll)

(* ------------------------------ Hidive --------------------------------- *)
HidiveUsers == {"user"}
HidivePasswords == {"secret"}

\* the Data of a successful answer of the Hidive API
HidiveData(type) ==
  CASE type = "Ping" -> [IPAddress : IPAddresses]
    [] type = "InitDevice" -> [DeviceId : DeviceIds, VisitId : VisitIds]
    [] type = "Authenticate" ->
         {[User |-> [Id |-> 7],
           Profiles |-> <<[Id |-> 70, Nickname |-> "nick"]>>]}

\* the answers to a Hidive request: Code 0 is success
HidiveResponses(type) ==
  {TransportError, HttpError}
    \cup {[arrived |-> TRUE, ok |-> TRUE, Code |-> 1, Data |-> Null]}
    \cup [arrived : {TRUE}, ok : {TRUE}, Code : {0}, Data : HidiveData(type)]

\* the Hidive account as connect() stores it
HidiveAccount(user, password, data) ==
  [login |-> [user |-> user, password |-> password],
   profiles |-> data.Profiles,
   user |-> [id |-> data.User.Id, name |-> data.Profiles[1].Nickname,
             profile |-> data.Profiles[1].Id, url |-> Null]]

\* setHidive(store, value)
setHidive(s, value) == [s EXCEPT !.hidive = value]

\* getIsConnectedTo(store).hidive
isConnectedToHidive(s) == s.hidive # Null

\* getHidiveLogin(store), with the defaults of authenticate()
getHidiveLogin(s) ==
  IF s.hidive = Null THEN [user |-> "", password |-> ""] ELSE s.hidive.login

\* Hidive.request(type, body): the request as it is sent, with the session
\* headers read from the module-level state
HidiveRequest(type, body) ==
  [ev |-> "request", type |-> type, body |-> body,
   deviceId |-> session.deviceId, visitId |-> session.visitId]

HidiveRequestWith(type, body, deviceId, visitId) ==
  [ev |-> "request", type |-> type, body |-> body,
   deviceId |-> deviceId, visitId |-> visitId]

Answer(type, response) ==
  [ev |-> "response", type |-> type, response |-> response]

Idle ==
  [fn |-> "none", pc |-> "done", user |-> "", password |-> "",
   outcome |-> "none", calls |-> 0, detached |-> 0,
   before |-> [store |-> Null, session |-> Null],
   stack |-> <<>>, value |-> Null]

InitHidive ==
  /\ NoList
  /\ store \in [hidive : {Null} \cup
                  {HidiveAccount(u, p, d) : u \in HidiveUsers,
                     p \in HidivePasswords, d \in HidiveData("Authenticate")}]
  /\ session = [ipAddress |-> "", deviceId |-> "", visitId |-> ""]
  /\ proc = Idle
  /\ trace = <<>>

\* a provider function can be called
CanCall == proc.outcome # "pending" /\ proc.calls < MaxProviderCalls

\* the call of fn starts and runs up to its first awaited request
Enter(fn, pc, user, password) ==
  [proc EXCEPT !.fn = fn, !.pc = pc, !.user = user, !.password = password,
               !.outcome = "pending", !.calls = @ + 1,
               !.before = [store |-> store, session |-> session]]

\* the running call completes: it returns, or its promise rejects
Leave(outcome) == [proc EXCEPT !.pc = "done", !.outcome = outcome]

\* Hidive.createVisit(store), up to the awaited Ping
createVisit ==
  /\ CanCall
  /\ proc' = Enter("createVisit", "Ping", "", "")
  /\ trace' = <<HidiveRequest("Ping", Null)>>
  /\ UNCHANGED <<store, session>>
  /\ UNCHANGED listVars

\* createVisit goes on to InitDevice whatever the Code of the Ping answer
createVisitAfterPingUnchecked(response) ==
  /\ proc.fn = "createVisit" /\ proc.pc = "Ping" /\ proc.outcome = "pending"
  /\ superagentResolves(response, FALSE)
  /\ proc' = [proc EXCEPT !.pc = "InitDevice"]
  /\ trace' = trace \o <<Answer("Ping", response),
                         HidiveRequest("InitDevice", "Android")>>
  /\ UNCHANGED <<store, session>>
  /\ UNCHANGED listVars

\* createVisit resumes with the answer to Ping, up to the awaited InitDevice
createVisitAfterPing(response) ==
  /\ proc.fn = "createVisit" /\ proc.pc = "Ping" /\ proc.outcome = "pending"
  /\ IF ~superagentResolves(response, FALSE)
     THEN /\ proc' = Leave("rejected")
          /\ trace' = Append(trace, Answer("Ping", response))
          /\ UNCHANGED session
     ELSE IF ~response.ok \/ response.Code # 0
     THEN /\ proc' = Leave("returned")
          /\ trace' = Append(trace, Answer("Ping", response))
          /\ UNCHANGED session
     ELSE /\ session' = [session EXCEPT !.ipAddress = response.Data.IPAddress]
          /\ proc' = [proc EXCEPT !.pc = "InitDevice"]
          /\ trace' = trace \o <<Answer("Ping", response),
                                 HidiveRequest("InitDevice", "Android")>>
  /\ UNCHANGED store
  /\ UNCHANGED listVars

\* createVisit resumes with the answer to InitDevice and runs to its end;
\* authenticate({ store }) is called without await, so its request is sent
\* and createVisit returns while the request is in flight
createVisitAfterInitDevice(response) ==
  /\ proc.fn = "createVisit" /\ proc.pc = "InitDevice"
  /\ proc.outcome = "pending"
  /\ IF ~superagentResolves(response, FALSE)
     THEN /\ proc' = Leave("rejected")
          /\ trace' = Append(trace, Answer("InitDevice", response))
          /\ UNCHANGED session
     ELSE IF ~response.ok \/ response.Code # 0
     THEN /\ proc' = Leave("returned")
          /\ trace' = Append(trace, Answer("InitDevice", response))
          /\ UNCHANGED session
     ELSE /\ session' = [session EXCEPT !.deviceId = response.Data.DeviceId,
                                        !.visitId = response.Data.VisitId]
          /\ IF isConnectedToHidive(store)
             THEN /\ proc' = [Leave("returned") EXCEPT !.detached = @ + 1]
                  /\ trace' = trace \o
                       <<Answer("InitDevice", response),
                         HidiveRequestWith("Authenticate",
                                           getHidiveLogin(store),
                                           response.Data.DeviceId,
                                           response.Data.VisitId)>>
             ELSE /\ proc' = Leave("returned")
                  /\ trace' = Append(trace, Answer("InitDevice", response))
  /\ UNCHANGED store
  /\ UNCHANGED listVars

\* the answer to an Authenticate request that nobody awaits: authenticate()
\* completes and its result, or its rejection, is dropped
authenticateDetached(response) ==
  /\ proc.detached > 0
  /\ proc' = [proc EXCEPT !.detached = @ - 1]
  /\ trace' = Append(trace, [ev |-> "dropped", type |-> "Authenticate",
                             response |-> response])
  /\ UNCHANGED <<store, session>>
  /\ UNCHANGED listVars

\* the call of fn has completed (history: before is the state at the call)
Completed(fn) == proc.fn = fn /\ proc.outcome \in {"returned", "rejected"}

\* Hidive.connect(store, user, password), up to the awaited Authenticate
connect(user, password) ==
  /\ CanCall
  /\ proc' = Enter("connect", "Authenticate", user, password)
  /\ trace' = <<HidiveRequest("Authenticate",
                              [user |-> user, password |-> password])>>
  /\ UNCHANGED <<store, session>>
  /\ UNCHANGED listVars

\* authenticate(): null unless the answer is ok with Code 0
authenticate(response) ==
  IF ~response.ok \/ response.Code # 0 THEN Null ELSE response

\* connect resumes with the answer to Authenticate and runs to its end
connectAfterAuthenticate(response) ==
  /\ proc.fn = "connect" /\ proc.pc = "Authenticate"
  /\ proc.outcome = "pending"
  /\ trace' = Append(trace, Answer("Authenticate", response))
  /\ IF ~superagentResolves(response, FALSE)
     THEN /\ proc' = Leave("rejected")
          /\ UNCHANGED store
     ELSE IF authenticate(response) = Null
     THEN /\ proc' = Leave("returned")
          /\ UNCHANGED store
     ELSE /\ proc' = Leave("returned")
          /\ store' = setHidive(store,
                         HidiveAccount(proc.user, proc.password,
                                       response.Data))
  /\ UNCHANGED session
  /\ UNCHANGED listVars

\* Hidive.disconnect(store): the login is cleared, then authenticate is
\* called without await with the (now empty) stored login
disconnect ==
  /\ CanCall
  /\ store' = setHidive(store, Null)
  /\ proc' = [Leave("returned") EXCEPT !.fn = "disconnect", !.user = "",
                !.password = "", !.calls = @ + 1, !.detached = @ + 1,
                !.before = [store |-> store, session |-> session]]
  /\ trace' = <<[ev |-> "setHidive", value |-> Null],
                HidiveRequest("Authenticate", [user |-> "", password |-> ""])>>
  /\ UNCHANGED session
  /\ UNCHANGED listVars

NextHidive ==
  \/ createVisit
  \/ \E response \in HidiveResponses("Ping") : createVisitAfterPing(response)
  \/ \E response \in HidiveResponses("InitDevice") :
       createVisitAfterInitDevice(response)
  \/ \E response \in HidiveResponses("Authenticate") :
       authenticateDetached(response)
  \/ \E user \in HidiveUsers, password \in HidivePasswords :
       connect(user, password)
  \/ \E response \in HidiveResponses("Authenticate") :
       connectAfterAuthenticate(response)
  \/ disconnect

SpecHidive == InitHidive /\ [][NextHidive]_vars

(* ------------------------ claims on Hidive ------------------------------ *)
\* the answers of the running call, in order
Answers == SelectSeq(trace, LAMBDA e : e.ev = "response")

\* the requests of the running call, in order
Requests == SelectSeq(trace, LAMBDA e : e.ev = "request")

\* C11: session creation is best-effort: createVisit and createSession
\* never reject to their caller, whatever the provider answers (transport
\* error, non-success status code); they complete normally.
C11_SessionCreationNeverRejects ==
  proc.fn \in {"createVisit", "createSession"} => proc.outcome # "rejected"

\* the Authenticate request of connect succeeded: response ok and Code 0
AuthenticateSucceeded ==
  /\ Len(Answers) = 1
  /\ Answers[1].response.arrived
  /\ Answers[1].response.ok
  /\ Answers[1].response.Code = 0

\* C12: connect writes login, profiles and user to the settings store if
\* and only if the Authenticate request succeeded (response ok and Code 0);
\* when authentication fails it returns nothing and leaves the store
\* unchanged.
C12_ConnectWritesIffAuthenticated ==
  Completed("connect") =>
    IF AuthenticateSucceeded
    THEN /\ proc.outcome = "returned"
         /\ store = setHidive(proc.before.store,
                      HidiveAccount(proc.user, proc.password,
                                    Answers[1].response.Data))
    ELSE /\ proc.outcome = "returned"
         /\ store = proc.before.store

\* the answer is a success of the Hidive API
Code0(response) == response.arrived /\ response.ok /\ response.Code = 0

\* the requests of createVisit so far are a prefix of Ping, InitDevice,
\* Authenticate, each sent after a Code 0 answer to the one before
HandshakeOrdered ==
  /\ Len(Requests) <= 3
  /\ \A i \in 1..Len(Requests) :
       /\ Requests[i].type = <<"Ping", "InitDevice", "Authenticate">>[i]
       /\ i > 1 => /\ Len(Answers) >= i - 1
                   /\ Answers[i - 1].type = Requests[i - 1].type
                   /\ Code0(Answers[i - 1].response)
  /\ Len(Requests) = 3 => isConnectedToHidive(store)
  /\ \A i \in 1..Len(trace) :
       trace[i].ev = "response" =>
         Len(SelectSeq(SubSeq(trace, 1, i), LAMBDA e : e.ev = "request"))
           >= Len(SelectSeq(SubSeq(trace, 1, i), LAMBDA e : e.ev = "response"))

\* deviceId and visitId are those of the one successful InitDevice answer
\* of the call, or those the call started with
IdsFromOneAnswer ==
  IF Len(Answers) >= 2 /\ Code0(Answers[2].response)
  THEN /\ session.deviceId = Answers[2].response.Data.DeviceId
       /\ session.visitId = Answers[2].response.Data.VisitId
  ELSE /\ session.deviceId = proc.before.session.deviceId
       /\ session.visitId = proc.before.session.visitId

\* C20: in createVisit the requests are ordered Ping, InitDevice,
\* Authenticate; InitDevice is sent only after a Ping with Code 0,
\* Authenticate only after an InitDevice with Code 0 and only when the store
\* marks Hidive as connected; deviceId and visitId change only together,
\* both from the same successful InitDevice answer, and are unchanged when
\* Ping or InitDevice fails.
C20_HandshakeIsOrdered ==
  proc.fn = "createVisit" => HandshakeOrdered /\ IdsFromOneAnswer

\* a second createVisit replaced both identifiers of the first and sent
\* Authenticate for the connected account
C20_Witness ==
  /\ Completed("createVisit")
  /\ proc.calls = 2
  /\ Len(Requests) = 3
  /\ proc.before.session.deviceId = "d1"
  /\ proc.before.session.visitId = "v1"
  /\ session.deviceId = "d2"
  /\ session.visitId = "v2"

(* ------------------ episode lists of Crunchyroll ----------------------- *)
(* An episode_number of the provider is a string; it is modelled as the    *)
(* sequence of its characters.  A JavaScript number is modelled in fixed   *)
(* point, as [nan, v] with v the number times Scale.                       *)

MaxEpisodes == 3        \* media items in one answer of list_media

Scale == 100            \* fixed point: two fractional digits

Digits == {"0", "1", "2", "3", "4", "5", "6", "7", "8", "9"}

DigitValue ==
  ("0" :> 0) @@ ("1" :> 1) @@ ("2" :> 2) @@ ("3" :> 3) @@ ("4" :> 4) @@
  ("5" :> 5) @@ ("6" :> 6) @@ ("7" :> 7) @@ ("8" :> 8) @@ ("9" :> 9)

\* the episode_number strings of the provider that are exercised
EpisodeNumberStrings ==
  {<<>>, <<"S", "P">>, <<".">>, <<"0">>, <<"1">>, <<"2">>, <<"3">>, <<"4">>,
   <<"1", "0">>, <<"2", ".", "5">>, <<"1", ".", "0">>, <<"3", "a">>}

NaN == [nan |-> TRUE, v |-> 0]

Num(v) == [nan |-> FALSE, v |-> v]

RECURSIVE DecimalValue(_)
\* the value of a sequence of digits
DecimalValue(digits) ==
  IF digits = <<>> THEN 0
  ELSE 10 * DecimalValue(SubSeq(digits, 1, Len(digits) - 1))
         + DigitValue[digits[Len(digits)]]

\* Number(str) for a string of digits and dots: '' is 0, a string with two
\* dots or with no digit is NaN
Number(str) ==
  LET dots == {i \in 1..Len(str) : str[i] = "."}
  IN  IF str = <<>> THEN Num(0)
      ELSE IF Cardinality(dots) > 1 \/ Cardinality(dots) = Len(str) THEN NaN
      ELSE IF dots = {} THEN Num(Scale * DecimalValue(str))
      ELSE LET d == CHOOSE i \in dots : TRUE
               whole == SubSeq(str, 1, d - 1)
               frac == SubSeq(str, d + 1, Len(str))
               padded == IF Len(frac) = 0 THEN <<"0", "0">>
                         ELSE IF Len(frac) = 1 THEN frac \o <<"0">>
                         ELSE SubSeq(frac, 1, 2)
           IN  Num(Scale * DecimalValue(whole) + DecimalValue(padded))

\* a - b, Math.max(0, a) and a % 1 !== 0 on JavaScript numbers
Minus(a, b) == IF a.nan \/ b.nan THEN NaN ELSE Num(a.v - b.v)

MaxWithZero(a) == IF a.nan THEN NaN ELSE IF a.v > 0 THEN a ELSE Num(0)

NotWhole(a) == a.nan \/ a.v % Scale # 0

\* str.replace(/[^\d.]/g, '')
onlyNumbers(str) == SelectSeq(str, LAMBDA ch : ch \in Digits \cup {"."})

getEpisodeNumber(num) == Number(onlyNumbers(num))

\* the answers of list_media: the media (_Media) of a collection, the i-th
\* with media_id i
MediaLists ==
  UNION {{[i \in 1..n |-> [media_id |-> i, episode_number |-> numbers[i]]] :
            numbers \in [1..n -> EpisodeNumberStrings]} :
           n \in 0..MaxEpisodes}

\* mediaToEpisode(id)(media, index); index counts from 0
mediaToEpisode(id, media, index) ==
  [provider |-> "Crunchyroll", id |-> media.media_id, animeId |-> id,
   index |-> index, episodeNumber |-> media.episode_number]

\* fixEpisodeNumbers that leaves every number as it is
fixEpisodeNumbersNoShift(episodes) ==
  [i \in 1..Len(episodes) |->
     [episodes[i] EXCEPT
        !.episodeNumber = getEpisodeNumber(episodes[i].episodeNumber)]]

\* fixEpisodeNumbers without Math.max
fixEpisodeNumbersUnclamped(episodes) ==
  IF episodes = <<>> THEN <<>>
  ELSE LET firstIndex ==
             Minus(getEpisodeNumber(episodes[1].episodeNumber), Num(Scale))
       IN  [i \in 1..Len(episodes) |->
              [episodes[i] EXCEPT
                 !.episodeNumber =
                    Minus(getEpisodeNumber(episodes[i].episodeNumber),
                          firstIndex)]]

fixEpisodeNumbers(episodes) ==
  IF episodes = <<>> THEN <<>>
  ELSE LET firstIndex ==
             MaxWithZero(Minus(getEpisodeNumber(episodes[1].episodeNumber),
                               Num(Scale)))
       IN  [i \in 1..Len(episodes) |->
              [episodes[i] EXCEPT
                 !.episodeNumber =
                    Minus(getEpisodeNumber(episodes[i].episodeNumber),
                          firstIndex)]]

episodeNumberIsHalf(media) == NotWhole(getEpisodeNumber(media.episode_number))

isSpecialEpisode(media) ==
  media.episode_number = <<"S", "P">> \/ media.episode_number = <<>>

\* isRealEpisode that only excludes the fractional numbers
isRealEpisodeKeepsSpecials(media) == ~episodeNumberIsHalf(media)

isRealEpisode(media) == ~(episodeNumberIsHalf(media) \/ isSpecialEpisode(media))

\* response.body.data.filter(isRealEpisode)
RealEpisodes(data) == SelectSeq(data, isRealEpisode)

\* .map(mediaToEpisode(id))
ToEpisodes(id, data) ==
  [i \in 1..Len(data) |-> mediaToEpisode(id, data[i], i - 1)]

\* the episode list fetchEpisodesOfCollection builds from a list_media answer
EpisodesOfCollection(id, data) ==
  fixEpisodeNumbers(ToEpisodes(id, RealEpisodes(data)))

NoRun ==
  [fn |-> "none", data |-> <<>>, real |-> <<>>, input |-> <<>>,
   output |-> <<>>]

InitEpisodes ==
  /\ NoList
  /\ store = Null
  /\ session = Null
  /\ trace = <<>>
  /\ \E data \in MediaLists : proc = [NoRun EXCEPT !.data = data]

\* fixEpisodeNumbers is applied to the episodes of the media as they come
FixAll ==
  /\ proc.fn = "none"
  /\ proc' = [proc EXCEPT !.fn = "fixEpisodeNumbers",
                !.input = ToEpisodes(1, proc.data),
                !.output = fixEpisodeNumbers(ToEpisodes(1, proc.data))]
  /\ UNCHANGED <<store, session, trace>>
  /\ UNCHANGED listVars

\* the media go through filter, map and fixEpisodeNumbers
FilterMapFix ==
  /\ proc.fn = "none"
  /\ proc' = [proc EXCEPT !.fn = "fetchEpisodesOfCollection",
                !.real = [i \in 1..Len(proc.data) |->
                            isRealEpisode(proc.data[i])],
                !.input = ToEpisodes(1, RealEpisodes(proc.data)),
                !.output = EpisodesOfCollection(1, proc.data)]
  /\ UNCHANGED <<store, session, trace>>
  /\ UNCHANGED listVars

NextEpisodes == FixAll \/ FilterMapFix

SpecEpisodes == InitEpisodes /\ [][NextEpisodes]_vars

(* ---------------------------- Crunchyroll ------------------------------ *)
(* The running call is a stack of frames, one per function that awaits;    *)
(* the helpers below take and return the state of the client as a record   *)
(* [store, session, proc, trace], so that a return or a throw can run the  *)
(* continuation of the caller in the same step.                            *)

LocaleRetryDelay == 1500

SessionIds == {"s1", "s2"}

CrunchyrollErrorCodes ==
  {"bad_request", "bad_session", "object_not_found", "forbidden"}

\* what superagent got for a request to Crunchyroll; data is <<>> when the
\* body has no data, and <<d>> when body.data is d
CrunchyrollAnswer(arrived, ok, error, code, data) ==
  [arrived |-> arrived, ok |-> ok, error |-> error, code |-> code,
   data |-> data]

\* response.body.data of a successful answer, per request
Payload(type) ==
  CASE type \in {"passthrough", "start_session"} ->
         [session_id : SessionIds, country_code : {"US"}]
    [] type = "list_locales" -> {<<"enUS">>, <<"enUS", "frFR">>}
    [] type = "info.series" -> {[name |-> "series"]}
    [] type = "info.media" ->
         {[media_id |-> 1, collection_id |-> "c1",
           episode_number |-> <<"1">>]}
    [] type = "info.stream" -> [playhead : {0}, streams : {<<>>, <<"url">>}]
    [] type = "list_collections" -> {<<>>, <<"c1">>}
    [] type = "list_media" ->
         {<<>>,
          <<[media_id |-> 1, episode_number |-> <<"2", ".", "5">>],
            [media_id |-> 2, episode_number |-> <<"3">>]>>}
    [] type = "autocomplete" -> {<<>>}
    [] type = "log" -> {"ok"}

\* the answers to a request: no answer, a non-2xx answer (with or without
\* an error body), an error body, a success
CrunchyrollResponses(type) ==
  {CrunchyrollAnswer(FALSE, FALSE, FALSE, "", <<>>),
   CrunchyrollAnswer(TRUE, FALSE, TRUE, "bad_request", <<>>),
   CrunchyrollAnswer(TRUE, FALSE, FALSE, "", <<>>)}
    \cup {CrunchyrollAnswer(TRUE, TRUE, TRUE, code, <<>>) :
            code \in CrunchyrollErrorCodes}
    \cup {CrunchyrollAnswer(TRUE, TRUE, FALSE, "", <<data>>) :
            data \in Payload(type)}

responseIsError(response) == response.error

\* response.body.data
DataOf(response) == response.data[1]

\* setCrunchyroll(store, value)
setCrunchyroll(s, value) == [s EXCEPT !.crunchyroll = value]

\* getIsConnectedTo(store).crunchyroll
isConnectedToCrunchyroll(s) == s.crunchyroll.user # Null

\* a token that is null
NoToken == "null"

LoggedOut == [user |-> Null, token |-> NoToken, refreshToken |-> NoToken]

LoggedIn ==
  [user |-> [id |-> 1, name |-> "user"], token |-> "s0",
   refreshToken |-> "r0"]

InitCrunchyroll ==
  /\ NoList
  /\ store \in [crunchyroll : {LoggedOut, LoggedIn},
                useCRUnblocker : BOOLEAN, sessionId : {""}, country : {""}]
  /\ session = [_sessionId |-> IF store.crunchyroll.token = NoToken THEN ""
                               ELSE store.crunchyroll.token,
                _locales |-> <<>>]
  /\ proc = Idle
  /\ trace = <<>>

Now == [store |-> store, session |-> session, proc |-> proc, trace |-> trace]

Becomes(st) ==
  /\ store' = st.store
  /\ session' = st.session
  /\ proc' = st.proc
  /\ trace' = st.trace

Emit(st, event) == [st EXCEPT !.trace = Append(@, event)]

Top(st) == st.proc.stack[Len(st.proc.stack)]

Push(st, fn, pc) ==
  [st EXCEPT !.proc.stack = Append(@, [fn |-> fn, pc |-> pc, data |-> Null])]

Pop(st) == [st EXCEPT !.proc.stack = SubSeq(@, 1, Len(@) - 1)]

SetTop(st, pc, data) ==
  [st EXCEPT !.proc.stack[Len(st.proc.stack)] =
               [fn |-> Top(st).fn, pc |-> pc, data |-> data]]

\* Crunchyroll.request(type, query) and the request of createSessionFromUrl
Send(st, type) == Emit(st, [ev |-> "request", type |-> type])

\* throw outside any try block: every frame is left and the promise of the
\* called function rejects
Throw(st) ==
  [st EXCEPT !.proc.stack = <<>>, !.proc.pc = "done",
             !.proc.outcome = "rejected"]

\* if (code === 'bad_session') activeWindow().reload(); throw new Error(...)
ReloadAndThrow(st, response) ==
  Throw(IF response.code = "bad_session" THEN Emit(st, [ev |-> "reload"])
        ELSE st)

\* the first write of logOut, with the user removed at once
logOutFirstWriteRemovesUser(s) == setCrunchyroll(s, LoggedOut)

\* the first write of logOut: the tokens are cleared, the user is kept
logOutFirstWrite(s) ==
  setCrunchyroll(s, [user |-> s.crunchyroll.user, token |-> NoToken,
                     refreshToken |-> NoToken])

RECURSIVE Call(_, _)
\* fn is called: it runs up to its first awaited request
Call(st, fn) ==
  CASE fn = "createSession" ->
         IF st.store.useCRUnblocker
         THEN Send(Push(st, fn, "passthrough"), "passthrough")
         ELSE Send(Push(st, fn, "start_session"), "start_session")
    [] fn = "logOut" ->
         Call(Push(Emit([st EXCEPT !.store = logOutFirstWrite(st.store)],
                        [ev |-> "removeCookies"]),
                   fn, "createSession"),
              "createSession")
    [] fn = "fetchLocales" -> Send(Push(st, fn, "first"), "list_locales")
    [] fn = "fetchSeriesAndCollections" ->
         Send(Push(st, fn, "info"), "info.series")
    [] fn = "fetchEpisode" -> Send(Push(st, fn, "info"), "info.media")
    [] fn = "fetchCollectionsAndEpisodes" ->
         Send(Push(st, fn, "list_collections"), "list_collections")
    [] fn = "fetchEpisodesOfCollection" ->
         Send(Push(st, fn, "list_media"), "list_media")
    [] fn = "fetchSeasonFromEpisode" ->
         Call(Push(st, fn, "fetchEpisode"), "fetchEpisode")
    [] fn = "fetchStream" ->
         Call(Push(st, fn, "fetchStreamInfo"), "fetchStreamInfo")
    [] fn = "fetchStreamInfo" -> Send(Push(st, fn, "info"), "info.stream")
    [] fn = "searchByString" ->
         Send(Push(st, fn, "autocomplete"), "autocomplete")
    [] fn = "setProgressOfEpisode" -> Send(Push(st, fn, "log"), "log")

RECURSIVE Return(_, _)
\* the function on top of the stack returns value: its caller resumes and
\* runs up to its next awaited request, or the called function completes
Return(st, value) ==
  LET callee == Top(st).fn
      up == Pop(st)
  IN  IF up.proc.stack = <<>>
      THEN [up EXCEPT !.proc.pc = "done", !.proc.outcome = "returned",
                      !.proc.value = value]
      ELSE CASE Top(up).fn = "createSession" ->
                  Return([up EXCEPT !.session._locales = value],
                         Top(up).data)
             [] Top(up).fn = "logOut" ->
                  Return([up EXCEPT !.store =
                                      setCrunchyroll(up.store, LoggedOut)],
                         Null)
             [] Top(up).fn = "fetchSeriesAndCollections" ->
                  Return(up, [title |-> Top(up).data.name,
                              collections |-> value])
             [] Top(up).fn = "fetchCollectionsAndEpisodes" ->
                  Return(up, <<[collection_id |-> Top(up).data[1],
                                episodes |-> value]>>)
             [] Top(up).fn = "fetchSeasonFromEpisode" ->
                  IF callee = "fetchEpisodesOfCollection"
                  THEN Return(up, value)
                  ELSE IF value = Null THEN Return(up, <<>>)
                  ELSE Call(up, "fetchEpisodesOfCollection")
             [] Top(up).fn = "fetchStream" ->
                  IF value.streams = <<>> THEN Throw(up)
                  ELSE Return(up, [url |-> value.streams[1],
                                   subtitles |-> <<>>,
                                   progress |-> value.playhead])

\* the function on top of the stack awaits the answer to its request
Awaits(fn, pcs) ==
  /\ proc.outcome = "pending"
  /\ proc.stack # <<>>
  /\ Top(Now).fn = fn
  /\ Top(Now).pc \in pcs

\* a public function of Crunchyroll is called
Start(fn) ==
  /\ CanCall
  /\ Becomes(Call([Now EXCEPT !.proc = Enter(fn, "run", "", ""),
                              !.trace = <<>>], fn))
  /\ UNCHANGED listVars

\* Crunchyroll.createSession(store)
createSession == Start("createSession")

\* createSession with the toast of a failed passthrough sent to every user
createSessionFromUrlResumesAlwaysToasts(response) ==
  /\ Awaits("createSession", {"passthrough", "start_session"})
  /\ LET st == Emit(Now, Answer(Top(Now).pc, response))
     IN  IF /\ superagentResolves(response, TRUE)
            /\ ~responseIsError(response)
            /\ response.data # <<>>
         THEN LET got == [SetTop(st, "locales", DataOf(response)) EXCEPT
                            !.session._sessionId = DataOf(response).session_id,
                            !.store.sessionId = DataOf(response).session_id,
                            !.store.country = DataOf(response).country_code]
              IN  IF isConnectedToCrunchyroll(got.store)
                  THEN Becomes(Call(got, "fetchLocales"))
                  ELSE Becomes(Return(got, DataOf(response)))
         ELSE IF Top(Now).pc = "passthrough"
         THEN Becomes(Send(SetTop(Emit(st, [ev |-> "sendErrorToast"]),
                                  "start_session", Null),
                           "start_session"))
         ELSE Becomes(Throw(st))
  /\ UNCHANGED listVars

\* createSessionFromUrl resumes with the answer; createSession goes on: the
\* start_session request after a failed passthrough, the locales when the
\* user is connected, or its end
createSessionFromUrlResumes(response) ==
  /\ Awaits("createSession", {"passthrough", "start_session"})
  /\ LET st == Emit(Now, Answer(Top(Now).pc, response))
     IN  IF /\ superagentResolves(response, TRUE)
            /\ ~responseIsError(response)
            /\ response.data # <<>>
         THEN LET got == [SetTop(st, "locales", DataOf(response)) EXCEPT
                            !.session._sessionId = DataOf(response).session_id,
                            !.store.sessionId = DataOf(response).session_id,
                            !.store.country = DataOf(response).country_code]
              IN  IF isConnectedToCrunchyroll(got.store)
                  THEN Becomes(Call(got, "fetchLocales"))
                  ELSE Becomes(Return(got, DataOf(response)))
         ELSE IF Top(Now).pc = "passthrough"
         THEN Becomes(Send(SetTop(IF isConnectedToCrunchyroll(st.store)
                                  THEN Emit(st, [ev |-> "sendErrorToast"])
                                  ELSE st,
                                  "start_session", Null),
                           "start_session"))
         ELSE Becomes(Throw(st))
  /\ UNCHANGED listVars

\* Crunchyroll.logOut(store)
logOut == Start("logOut")

\* Crunchyroll.fetchLocales()
fetchLocales == Start("fetchLocales")

\* fetchLocales that gives up after the first error response
fetchLocalesNoRetry(response) ==
  /\ Awaits("fetchLocales", {"first", "second"})
  /\ LET st == Emit(Now, Answer("list_locales", response))
     IN  IF ~superagentResolves(response, FALSE) \/ responseIsError(response)
         THEN Becomes(Throw(st))
         ELSE Becomes(Return(st, DataOf(response)))
  /\ UNCHANGED listVars

\* fetchLocales resumes with the answer to list_locales
fetchLocalesResumes(response) ==
  /\ Awaits("fetchLocales", {"first", "second"})
  /\ LET st == Emit(Now, Answer("list_locales", response))
     IN  IF ~superagentResolves(response, FALSE) THEN Becomes(Throw(st))
         ELSE IF responseIsError(response)
         THEN IF Top(Now).pc = "first"
              THEN Becomes(SetTop(st, "delay", Null))
              ELSE Becomes(Throw(st))
         ELSE Becomes(Return(st, DataOf(response)))
  /\ UNCHANGED listVars

\* await delay(1500) is over: the second list_locales request is sent
fetchLocalesAfterDelay ==
  /\ Awaits("fetchLocales", {"delay"})
  /\ Becomes(Send(SetTop(Emit(Now, [ev |-> "delay",
                                    ms |-> LocaleRetryDelay]),
                         "second", Null),
                  "list_locales"))
  /\ UNCHANGED listVars

fetchSeriesAndCollections == Start("fetchSeriesAndCollections")

fetchSeriesAndCollectionsResumes(response) ==
  /\ Awaits("fetchSeriesAndCollections", {"info"})
  /\ LET st == Emit(Now, Answer("info.series", response))
     IN  IF ~superagentResolves(response, FALSE) THEN Becomes(Throw(st))
         ELSE IF responseIsError(response)
         THEN Becomes(ReloadAndThrow(st, response))
         ELSE Becomes(Call(SetTop(st, "collections", DataOf(response)),
                           "fetchCollectionsAndEpisodes"))
  /\ UNCHANGED listVars

fetchEpisode == Start("fetchEpisode")

\* fetchEpisode that throws on every error response
fetchEpisodeThrowsOnEveryError(response) ==
  /\ Awaits("fetchEpisode", {"info"})
  /\ LET st == Emit(Now, Answer("info.media", response))
     IN  IF ~superagentResolves(response, FALSE) THEN Becomes(Throw(st))
         ELSE IF responseIsError(response)
         THEN Becomes(ReloadAndThrow(st, response))
         ELSE Becomes(Return(st, DataOf(response)))
  /\ UNCHANGED listVars

\* fetchEpisode resumes with the answer to info
fetchEpisodeResumes(response) ==
  /\ Awaits("fetchEpisode", {"info"})
  /\ LET st == Emit(Now, Answer("info.media", response))
         reloaded == IF response.code = "bad_session"
                     THEN Emit(st, [ev |-> "reload"]) ELSE st
     IN  IF ~superagentResolves(response, FALSE) THEN Becomes(Throw(st))
         ELSE IF responseIsError(response)
         THEN IF response.code \in {"object_not_found", "forbidden"}
              THEN Becomes(Return(reloaded, Null))
              ELSE Becomes(Throw(reloaded))
         ELSE Becomes(Return(st, DataOf(response)))
  /\ UNCHANGED listVars

fetchCollectionsAndEpisodes == Start("fetchCollectionsAndEpisodes")

\* fetchCollectionsAndEpisodes resumes with the answer to list_collections;
\* mapAsync fetches the episodes of each collection (at most one here)
fetchCollectionsAndEpisodesResumes(response) ==
  /\ Awaits("fetchCollectionsAndEpisodes", {"list_collections"})
  /\ LET st == Emit(Now, Answer("list_collections", response))
     IN  IF ~superagentResolves(response, FALSE) THEN Becomes(Throw(st))
         ELSE IF responseIsError(response)
         THEN Becomes(ReloadAndThrow(st, response))
         ELSE IF DataOf(response) = <<>> THEN Becomes(Return(st, <<>>))
         ELSE Becomes(Call(SetTop(st, "episodes", DataOf(response)),
                           "fetchEpisodesOfCollection"))
  /\ UNCHANGED listVars

fetchEpisodesOfCollection == Start("fetchEpisodesOfCollection")

\* fetchEpisodesOfCollection resumes with the answer to list_media
fetchEpisodesOfCollectionResumes(response) ==
  /\ Awaits("fetchEpisodesOfCollection", {"list_media"})
  /\ LET st == Emit(Now, Answer("list_media", response))
     IN  IF ~superagentResolves(response, FALSE) THEN Becomes(Throw(st))
         ELSE IF responseIsError(response)
         THEN Becomes(ReloadAndThrow(st, response))
         ELSE Becomes(Return(st, EpisodesOfCollection(1, DataOf(response))))
  /\ UNCHANGED listVars

fetchSeasonFromEpisode == Start("fetchSeasonFromEpisode")

fetchStream == Start("fetchStream")

\* fetchStreamInfo resumes with the answer to info
fetchStreamInfoResumes(response) ==
  /\ Awaits("fetchStreamInfo", {"info"})
  /\ LET st == Emit(Now, Answer("info.stream", response))
     IN  IF ~superagentResolves(response, FALSE) THEN Becomes(Throw(st))
         ELSE IF responseIsError(response)
         THEN Becomes(ReloadAndThrow(st, response))
         ELSE Becomes(Return(st, DataOf(response)))
  /\ UNCHANGED listVars

searchByString == Start("searchByString")

searchByStringResumes(response) ==
  /\ Awaits("searchByString", {"autocomplete"})
  /\ LET st == Emit(Now, Answer("autocomplete", response))
     IN  IF ~superagentResolves(response, FALSE) THEN Becomes(Throw(st))
         ELSE IF responseIsError(response)
         THEN Becomes(ReloadAndThrow(st, response))
         ELSE Becomes(Return(st, DataOf(response)))
  /\ UNCHANGED listVars

setProgressOfEpisode == Start("setProgressOfEpisode")

\* setProgressOfEpisode resumes with the answer to log
setProgressOfEpisodeResumes(response) ==
  /\ Awaits("setProgressOfEpisode", {"log"})
  /\ LET st == Emit(Now, Answer("log", response))
     IN  IF ~superagentResolves(response, FALSE) THEN Becomes(Throw(st))
         ELSE IF responseIsError(response) THEN Becomes(Throw(st))
         ELSE Becomes(Return(st, Null))
  /\ UNCHANGED listVars

NextCrunchyroll ==
  \/ createSession
  \/ \E response \in CrunchyrollResponses("start_session") :
       createSessionFromUrlResumes(response)
  \/ logOut
  \/ fetchLocales
  \/ \E response \in CrunchyrollResponses("list_locales") :
       fetchLocalesResumes(response)
  \/ fetchLocalesAfterDelay
  \/ fetchSeriesAndCollections
  \/ \E response \in CrunchyrollResponses("info.series") :
       fetchSeriesAndCollectionsResumes(response)
  \/ fetchEpisode
  \/ \E response \in CrunchyrollResponses("info.media") :
       fetchEpisodeResumes(response)
  \/ fetchCollectionsAndEpisodes
  \/ \E response \in CrunchyrollResponses("list_collections") :
       fetchCollectionsAndEpisodesResumes(response)
  \/ fetchEpisodesOfCollection
  \/ \E response \in CrunchyrollResponses("list_media") :
       fetchEpisodesOfCollectionResumes(response)
  \/ fetchSeasonFromEpisode
  \/ fetchStream
  \/ \E response \in CrunchyrollResponses("info.stream") :
       fetchStreamInfoResumes(response)
  \/ searchByString
  \/ \E response \in CrunchyrollResponses("autocomplete") :
       searchByStringResumes(response)
  \/ setProgressOfEpisode
  \/ \E response \in CrunchyrollResponses("log") :
       setProgressOfEpisodeResumes(response)

SpecCrunchyroll == InitCrunchyroll /\ [][NextCrunchyroll]_vars

(* -------------------- claims on episode lists --------------------------- *)
\* the raw episode numbers handed to fixEpisodeNumbers, and those it returned
RawNumbers == [i \in 1..Len(proc.input) |-> proc.input[i].episodeNumber]

NewNumbers == [i \in 1..Len(proc.output) |-> proc.output[i].episodeNumber]

\* fixEpisodeNumbers was applied to a non-empty list of retained episodes
FixedRetained ==
  /\ proc.fn = "fetchEpisodesOfCollection"
  /\ proc.input # <<>>

\* the output has the episodes of the input, in the same order
SameEpisodes ==
  /\ Len(proc.output) = Len(proc.input)
  /\ \A i \in 1..Len(proc.input) :
       [proc.output[i] EXCEPT !.episodeNumber = RawNumbers[i]] = proc.input[i]

\* C15 as stated: for every non-empty sequence of retained episodes
\* (a first raw number of 0 or 1 included) fixEpisodeNumbers returns a
\* sequence of the same length and order whose first episode is numbered 1.
C15_FirstEpisodeIsOne ==
  FixedRetained => SameEpisodes /\ NewNumbers[1] = Num(Scale)

\* C15, amended: for every non-empty sequence of retained episodes
\* fixEpisodeNumbers returns a sequence of the same length and order; its
\* first episode is numbered 1 when the first raw number is 1 or more, and
\* keeps the number 0 when the first raw number is 0.
C15_FirstIsOneUnlessZero ==
  FixedRetained =>
    /\ SameEpisodes
    /\ NewNumbers[1] = IF getEpisodeNumber(RawNumbers[1]) = Num(0)
                       THEN Num(0) ELSE Num(Scale)

\* [3, 4, 10] became [1, 2, 8]
C15_Witness ==
  /\ FixedRetained
  /\ RawNumbers = <<(<<"3">>), (<<"4">>), (<<"1", "0">>)>>
  /\ NewNumbers = <<Num(Scale), Num(2 * Scale), Num(8 * Scale)>>

\* the numeric value of a raw episode number, times Scale
Raw(i) == getEpisodeNumber(RawNumbers[i]).v

\* every raw number of the input is a number
Numeric == \A i \in 1..Len(proc.input) : ~getEpisodeNumber(RawNumbers[i]).nan

\* C16: for every episode i of a non-empty input, newNumber[i] =
\* raw[i] - max(0, raw[0] - 1), so differences between episode numbers are
\* preserved, all other episode fields are unchanged, and an empty input
\* yields an empty list.
C16_NumbersAreShifted ==
  proc.fn \in {"fixEpisodeNumbers", "fetchEpisodesOfCollection"} =>
    /\ SameEpisodes
    /\ proc.input = <<>> => proc.output = <<>>
    /\ Numeric =>
         \A i \in 1..Len(proc.input) :
           /\ ~NewNumbers[i].nan
           /\ NewNumbers[i].v =
                Raw(i) - (IF Raw(1) - Scale > 0 THEN Raw(1) - Scale ELSE 0)
           /\ NewNumbers[i].v - NewNumbers[1].v = Raw(i) - Raw(1)

\* [2.5, 4, 0] became [1, 2.5, -1.5]
C16_Witness ==
  /\ proc.fn = "fixEpisodeNumbers"
  /\ RawNumbers = <<(<<"2", ".", "5">>), (<<"4">>), (<<"0">>)>>
  /\ NewNumbers = <<Num(Scale), Num(250), Num(-150)>>

\* the string is a fractional number: digits, one dot, and a fractional
\* digit that is not 0
Fractional(str) ==
  \E d \in 1..Len(str) :
    /\ str[d] = "."
    /\ \A j \in 1..Len(str) : j # d => str[j] \in Digits
    /\ \E j \in (d + 1)..Len(str) : str[j] # "0"

\* the string is a whole number: digits only, at least one
WholeNumber(str) ==
  str # <<>> /\ \A j \in 1..Len(str) : str[j] \in Digits

Excluded(str) == Fractional(str) \/ str = <<"S", "P">> \/ str = <<>>

\* C17: isRealEpisode is false for every media whose episode number is
\* fractional, SP or the empty string, and true for every media whose
\* episode number is a whole number; the list of fetchEpisodesOfCollection
\* contains no fractional or special episode.
C17_OnlyRealEpisodes ==
  proc.fn = "fetchEpisodesOfCollection" =>
    /\ \A i \in 1..Len(proc.data) :
         /\ Excluded(proc.data[i].episode_number) => ~proc.real[i]
         /\ WholeNumber(proc.data[i].episode_number) => proc.real[i]
    /\ \A k \in 1..Len(proc.output) :
         /\ ~Excluded(proc.data[proc.output[k].id].episode_number)
         /\ ~NewNumbers[k].nan
         /\ NewNumbers[k].v % Scale = 0

\* of [1, 2.5, SP] only episode 1 is kept
C17_Witness ==
  /\ proc.fn = "fetchEpisodesOfCollection"
  /\ [i \in 1..Len(proc.data) |-> proc.data[i].episode_number]
       = <<(<<"1">>), (<<"2", ".", "5">>), (<<"S", "P">>)>>
  /\ proc.real = <<TRUE, FALSE, FALSE>>
  /\ Len(proc.output) = 1

(* ----------------------- claims on Crunchyroll -------------------------- *)
\* the trace has an event of the kind
Has(ev) == \E i \in 1..Len(trace) : trace[i].ev = ev

\* the answer is an error response of the provider
ErrorResponse(e) == e.response.arrived /\ e.response.error

\* the answer made the awaited promise reject: no response, or not 2xx
Unanswered(e) == ~superagentResolves(e.response, FALSE)

\* the requests of fetchLocales: at most two, the second only after an error
\* response to the first and after the delay; a returned value is the data
\* of the first successful response
LocalesRetriedOnce ==
  /\ Len(Requests) <= 2
  /\ \A i \in 1..Len(Requests) : Requests[i].type = "list_locales"
  /\ Len(Requests) = 2 =>
       /\ Len(trace) >= 4
       /\ trace[2].ev = "response"
       /\ ErrorResponse(trace[2]) /\ ~Unanswered(trace[2])
       /\ trace[3] = [ev |-> "delay", ms |-> LocaleRetryDelay]
       /\ trace[4].ev = "request"
  /\ proc.outcome = "returned" =>
       /\ Len(Answers) = Len(Requests)
       /\ ~ErrorResponse(Answers[Len(Answers)])
       /\ proc.value = DataOf(Answers[Len(Answers)].response)

BothResponsesAreErrors ==
  /\ Len(Answers) = 2
  /\ ErrorResponse(Answers[1])
  /\ ErrorResponse(Answers[2])

\* C13 as stated: one call of fetchLocales sends at most two list_locales
\* requests, the second only if the first returned an error response and
\* only after the fixed delay; it returns the locales of the first
\* successful response and throws if and only if both responses are errors.
C13_ThrowsIffBothAreErrors ==
  proc.fn = "fetchLocales" =>
    /\ LocalesRetriedOnce
    /\ proc.outcome = "rejected" <=> BothResponsesAreErrors

\* C13, amended: as above, but the call throws if and only if both
\* responses are errors or one of its requests got no response or a
\* response that is not 2xx; in the latter case it throws at once, without
\* a second request when the request was the first.
C13_ThrowsIffBothErrorsOrNoAnswer ==
  proc.fn = "fetchLocales" =>
    /\ LocalesRetriedOnce
    /\ proc.outcome = "rejected" <=>
         \/ BothResponsesAreErrors /\ ~Unanswered(Answers[2])
         \/ /\ Len(Answers) = Len(Requests)
            /\ Unanswered(Answers[Len(Answers)])

\* the second request was needed and gave the locales
C13_Witness ==
  /\ Completed("fetchLocales")
  /\ Len(Requests) = 2
  /\ Has("delay")
  /\ proc.outcome = "returned"
  /\ proc.value = <<"enUS", "frFR">>

\* the operations of the Crunchyroll API named by C14
ApiOperations ==
  {"fetchSeriesAndCollections", "fetchEpisode", "fetchCollectionsAndEpisodes",
   "fetchEpisodesOfCollection", "fetchStream", "searchByString",
   "setProgressOfEpisode", "fetchLocales"}

\* an answer of the call was an error response with code bad_session
GotBadSession ==
  \E i \in 1..Len(Answers) :
    /\ ErrorResponse(Answers[i])
    /\ ~Unanswered(Answers[i])
    /\ Answers[i].response.code = "bad_session"

\* C14: every Crunchyroll API operation that receives an error response
\* with code bad_session triggers a session refresh or a window reload
\* before it returns or throws.
C14_BadSessionReloads ==
  (proc.fn \in ApiOperations /\ proc.outcome \in {"returned", "rejected"}
     /\ GotBadSession)
    => Has("reload")

\* logOut was called by a user who was logged in
LoggingOut == proc.fn = "logOut" /\ proc.before.store.crunchyroll.user # Null

\* C18: during logOut the stored user is not removed until a new session
\* has been obtained: before createSession completes the store holds the
\* previous user with token and refresh token cleared; the user is null
\* only after createSession has returned; if createSession fails the user
\* is never cleared.
C18_UserKeptUntilNewSession ==
  LoggingOut =>
    IF proc.outcome = "returned"
    THEN /\ store.crunchyroll = LoggedOut
         /\ \E i \in 1..Len(Answers) :
              /\ Answers[i].type \in {"passthrough", "start_session"}
              /\ ~ErrorResponse(Answers[i])
              /\ Answers[i].response.data # <<>>
              /\ session._sessionId = DataOf(Answers[i].response).session_id
    ELSE store.crunchyroll =
           [user |-> proc.before.store.crunchyroll.user, token |-> NoToken,
            refreshToken |-> NoToken]

\* the locales are being fetched for the user who is logging out
C18_Witness ==
  /\ LoggingOut
  /\ proc.outcome = "pending"
  /\ Top(Now).fn = "fetchLocales"
  /\ store.crunchyroll.user = LoggedIn.user
  /\ store.crunchyroll.token = NoToken

\* the answer of the provider to the info request of fetchEpisode
EpisodeAnswer == Answers[1].response

\* C19: fetchEpisode maps object_not_found and forbidden to null without
\* throwing and without reload, bad_session to a reload and a throw, any
\* other error code to a throw, a success to the media; fetchSeasonFromEpisode
\* returns an empty list and sends no list_media request exactly when
\* fetchEpisode returned null.
C19_RejectionsAreMapped ==
  /\ (Completed("fetchEpisode") /\ ~Unanswered(Answers[1])) =>
       CASE EpisodeAnswer.code \in {"object_not_found", "forbidden"} ->
              /\ proc.outcome = "returned"
              /\ proc.value = Null
              /\ ~Has("reload")
         [] EpisodeAnswer.code = "bad_session" ->
              /\ proc.outcome = "rejected"
              /\ Has("reload")
         [] EpisodeAnswer.code = "bad_request" ->
              /\ proc.outcome = "rejected"
              /\ ~Has("reload")
         [] OTHER ->
              /\ proc.outcome = "returned"
              /\ proc.value = DataOf(EpisodeAnswer)
  /\ Completed("fetchSeasonFromEpisode") =>
       (/\ proc.outcome = "returned"
        /\ Len(proc.value) = 0
        /\ Len(Requests) = 1)
         <=> (/\ ~Unanswered(Answers[1])
              /\ EpisodeAnswer.code \in {"object_not_found", "forbidden"})

\* the episode is forbidden: the season is empty and list_media was not sent
C19_Witness ==
  /\ Completed("fetchSeasonFromEpisode")
  /\ proc.outcome = "returned"
  /\ Len(proc.value) = 0
  /\ Len(Requests) = 1
  /\ EpisodeAnswer.code = "forbidden"

(* -------------------- claims on re-authentication ----------------------- *)
\* createVisit sent Authenticate with the stored login, and the request
\* failed: an answer that is not Code 0, or a rejected request
ReauthenticationFailed ==
  /\ proc.fn = "createVisit"
  /\ Len(Requests) = 3
  /\ \E i \in 1..Len(trace) :
       /\ trace[i].ev = "dropped"
       /\ ~Code0(trace[i].response)

\* C21: in createVisit, when Hidive is marked connected and the Authenticate
\* with the stored login fails (error response or rejected request), the
\* catch branch runs and disconnect clears the stored Hidive login: a failed
\* re-authentication never leaves the account marked connected.
C21_FailedReauthenticationDisconnects ==
  ReauthenticationFailed => ~isConnectedToHidive(store)

(* --------------------- claims on createSession -------------------------- *)
\* the functions that create a session: createSession, and logOut through it
SessionFunctions == {"createSession", "logOut"}

\* the request of the type was sent by the running call
Requested(type) ==
  \E i \in 1..Len(Requests) : Requests[i].type = type

\* the answer gave a session: it arrived, is no error response and has data
GaveSession(e) ==
  /\ e.response.arrived
  /\ ~e.response.error
  /\ e.response.data # <<>>

\* the passthrough request was answered and gave no session
PassthroughFailed ==
  \E i \in 1..Len(Answers) :
    Answers[i].type = "passthrough" /\ ~GaveSession(Answers[i])

\* the session answers of the running call that gave a session
SessionsGiven ==
  SelectSeq(Answers, LAMBDA e : /\ e.type \in {"passthrough", "start_session"}
                                /\ GaveSession(e))

\* C22: in createSession the start_session endpoint is requested if and
\* only if the unblocker is disabled or the passthrough attempt failed; a
\* failed passthrough attempt sends the error toast only when the user is
\* connected to Crunchyroll; the module-level session id is replaced only
\* by a successful session response and is unchanged by a failed one.
C22_StartSessionIsTheFallback ==
  proc.fn \in SessionFunctions =>
    /\ Requested("start_session") <=>
         (~proc.before.store.useCRUnblocker \/ PassthroughFailed)
    /\ Requested("passthrough") <=> proc.before.store.useCRUnblocker
    /\ Has("sendErrorToast") =>
         PassthroughFailed /\ isConnectedToCrunchyroll(proc.before.store)
    /\ session._sessionId =
         IF SessionsGiven = <<>> THEN proc.before.session._sessionId
         ELSE DataOf(SessionsGiven[Len(SessionsGiven)].response).session_id

\* the passthrough attempt of a connected user failed, the toast was sent,
\* and the start_session answer replaced the session id
C22_Witness ==
  /\ Completed("createSession")
  /\ proc.before.store.useCRUnblocker
  /\ PassthroughFailed
  /\ Has("sendErrorToast")
  /\ Requested("start_session")
  /\ proc.outcome = "returned"
  /\ session._sessionId # proc.before.session._sessionId
  /\ session._sessionId = proc.value.session_id
====
